---- MODULE Spec2Model ----
(***************************************************************************)
(* The officials data-quality scripts (analyze_officials.py,               *)
(* check_officials.py, deep_check_officials.py, verify_matching_games.py)  *)
(* as a state machine.  One run loads the results dataset and executes one *)
(* of the four scripts section by section; an uncaught Python exception    *)
(* ends the run.                                                           *)
(***************************************************************************)
EXTENDS Integers, Sequences, FiniteSets, TLC

VARIABLES script, data, pc, err,
          no_officials,
          all_officials, suspicious_names, name_counts, top_names, single_names,
          printed_schools, officials_by_school, identical_crews,
          all_names, generic_patterns, position_counts, found_suspicious,
          school_games, pair_report, major_report

vars == <<script, data, pc, err, no_officials,
          all_officials, suspicious_names, name_counts, top_names, single_names,
          printed_schools, officials_by_school, identical_crews,
          all_names, generic_patterns, position_counts, found_suspicious,
          school_games, pair_report, major_report>>

\* Largest number of records in the loaded "results" list.
MaxRecords == 3

----------------------------------------------------------------------------
(* JSON values as json.load returns them.  A dict keeps its keys in file    *)
(* order: items is a sequence of <<key, value>> with distinct keys.         *)

Absent == [t |-> "absent"]
Null == [t |-> "null"]
Str(s) == [t |-> "str", v |-> s]
Obj(items) == [t |-> "obj", items |-> items]
List(items) == [t |-> "list", items |-> items]

IsDict(v) == v.t = "obj"

\* Python truthiness of a loaded value (a missing key reads as None via .get).
Truthy(v) ==
    CASE v.t = "absent" -> FALSE
      [] v.t = "null" -> FALSE
      [] v.t = "str" -> v.v # ""
      [] v.t = "obj" -> v.items # <<>>
      [] v.t = "list" -> v.items # <<>>

HasKey(d, k) == \E i \in 1..Len(d.items) : d.items[i][1] = k

Lookup(d, k) == d.items[CHOOSE i \in 1..Len(d.items) : d.items[i][1] = k][2]

\* dict.get(k, default): the stored value (None included) or the default.
DictGet(d, k, default) == IF HasKey(d, k) THEN Lookup(d, k) ELSE default

\* result.get(field, default) on a record whose field may be missing.
FieldGet(v, default) == IF v.t = "absent" THEN default ELSE v

EmptyDict == Obj(<<>>)

----------------------------------------------------------------------------
(* Python str operations used by the scripts.                               *)

Upper == <<"A","B","C","D","E","F","G","H","I","J","K","L","M",
           "N","O","P","Q","R","S","T","U","V","W","X","Y","Z">>
Lowers == <<"a","b","c","d","e","f","g","h","i","j","k","l","m",
            "n","o","p","q","r","s","t","u","v","w","x","y","z">>
Digits == {"0","1","2","3","4","5","6","7","8","9"}
Whitespace == {" ", "\n", "\t"}

CharAt(s, i) == SubSeq(s, i, i)

IsUpper(c) == \E i \in 1..26 : Upper[i] = c
IsLower(c) == \E i \in 1..26 : Lowers[i] = c

LowerChar(c) == IF IsUpper(c) THEN Lowers[CHOOSE i \in 1..26 : Upper[i] = c] ELSE c

RECURSIVE LowerFrom(_, _)
LowerFrom(s, i) == IF i > Len(s) THEN "" ELSE LowerChar(CharAt(s, i)) \o LowerFrom(s, i + 1)

\* str.lower()
StrLower(s) == LowerFrom(s, 1)

\* sub in s
StrContains(s, sub) ==
    \E i \in 1..(Len(s) - Len(sub) + 1) : SubSeq(s, i, i + Len(sub) - 1) = sub

\* str.split() with no argument: maximal runs of non-whitespace characters.
RECURSIVE SplitFrom(_, _, _)
SplitFrom(s, i, cur) ==
    IF i > Len(s)
    THEN IF cur = "" THEN <<>> ELSE <<cur>>
    ELSE IF CharAt(s, i) \in Whitespace
         THEN (IF cur = "" THEN <<>> ELSE <<cur>>) \o SplitFrom(s, i + 1, "")
         ELSE SplitFrom(s, i + 1, cur \o CharAt(s, i))

StrSplit(s) == SplitFrom(s, 1, "")

\* str.count(' ')
StrCountSpaces(s) == Cardinality({i \in 1..Len(s) : CharAt(s, i) = " "})

\* The position where "$" matches at the end of s: the end of the string, or
\* just before one final newline.
DollarEnds(s) ==
    {Len(s)} \cup (IF Len(s) >= 1 /\ CharAt(s, Len(s)) = "\n" THEN {Len(s) - 1} ELSE {})

\* re.search(r'\d+$', name)
EndsWithNumber(s) == \E e \in DollarEnds(s) : e >= 1 /\ CharAt(s, e) \in Digits

\* A capitalised word [A-Z][a-z]+ occupying exactly s[a..b].
IsCapWord(s, a, b) ==
    /\ b >= a + 1
    /\ IsUpper(CharAt(s, a))
    /\ \A i \in (a + 1)..b : IsLower(CharAt(s, i))

\* re.match(r'^[A-Z][a-z]+ [A-Z][a-z]+$', name)
IsSimpleTwoWord(s) ==
    \E e \in DollarEnds(s) : \E sp \in 1..e :
        /\ CharAt(s, sp) = " "
        /\ IsCapWord(s, 1, sp - 1)
        /\ IsCapWord(s, sp + 1, e)

----------------------------------------------------------------------------
(* A GameResult record of data['results'].  domain and success are always   *)
(* present; school, gameInfo and officials are loaded values or Absent.     *)

GameResult(d, ok, sch, gi, off) ==
    [domain |-> d, success |-> ok, school |-> sch, gameInfo |-> gi, officials |-> off]

\* The (position, name) items of an officials dict whose name is truthy.
NamedItems(off) == SelectSeq(off.items, LAMBDA it : Truthy(it[2]))

----------------------------------------------------------------------------
(* analyze_officials.py                                                     *)

\* sum(1 for v in officials.values() if v is not None)
NonNullCount(off) == Len(SelectSeq(off.items, LAMBDA it : it[2] # Null))

\* The test of lines 10-16 with the success test of line 10 left out.
HasNoOfficialsAnyRecord(r) ==
    /\ IsDict(FieldGet(r.officials, EmptyDict))
    /\ NonNullCount(FieldGet(r.officials, EmptyDict)) = 0

\* The test of lines 10-16 on one record.
HasNoOfficials(r) ==
    /\ r.success
    /\ IsDict(FieldGet(r.officials, EmptyDict))
    /\ NonNullCount(FieldGet(r.officials, EmptyDict)) = 0

\* The dict appended at lines 17-22.
NoOfficialsEntry(r) ==
    [domain |-> r.domain,
     school |-> FieldGet(r.school, Str(r.domain)),
     opponent |-> DictGet(FieldGet(r.gameInfo, EmptyDict), "opponent", Str("Unknown")),
     officials_data |-> FieldGet(r.officials, EmptyDict)]

\* Line 20 calls .get on the gameInfo value: None or a list has no .get.
NoOfficialsRaises(r) ==
    HasNoOfficials(r) /\ ~IsDict(FieldGet(r.gameInfo, EmptyDict))

\* The loop of lines 9-22 from record i on; an exception ends it.
RECURSIVE NoOfficialsLoop(_, _, _)
NoOfficialsLoop(rs, i, acc) ==
    IF i > Len(rs) THEN [list |-> acc, err |-> "none"]
    ELSE IF NoOfficialsRaises(rs[i]) THEN [list |-> acc, err |-> "AttributeError"]
    ELSE IF HasNoOfficials(rs[i])
         THEN NoOfficialsLoop(rs, i + 1, Append(acc, NoOfficialsEntry(rs[i])))
         ELSE NoOfficialsLoop(rs, i + 1, acc)

----------------------------------------------------------------------------
(* check_officials.py                                                       *)

TopN == 10

common_placeholder_names ==
    {"john doe", "jane doe", "jane smith", "john smith", "test name", "example name"}

\* name_lower in common_placeholder_names
IsPlaceholder(name) == StrLower(name) \in common_placeholder_names

\* len(parts) == 2 and parts[0] == parts[1]
IsRepetitive(name) ==
    LET parts == StrSplit(name) IN Len(parts) = 2 /\ parts[1] = parts[2]

Flag(r, it, reason) ==
    [school |-> r.domain, position |-> it[1], name |-> it[2].v, reason |-> reason]

\* Lines 25-50 with the three ifs chained as if / elif / elif.
FlagsOfFirstOnly(r, it) ==
    IF IsPlaceholder(it[2].v) THEN <<Flag(r, it, "Common placeholder name")>>
    ELSE IF IsRepetitive(it[2].v) THEN <<Flag(r, it, "Repetitive pattern")>>
    ELSE IF EndsWithNumber(it[2].v) THEN <<Flag(r, it, "Contains numbers")>>
    ELSE <<>>

\* Lines 25-50 for one official: the flags appended, in the order of the ifs.
FlagsOf(r, it) ==
    (IF IsPlaceholder(it[2].v) THEN <<Flag(r, it, "Common placeholder name")>> ELSE <<>>)
    \o (IF IsRepetitive(it[2].v) THEN <<Flag(r, it, "Repetitive pattern")>> ELSE <<>>)
    \o (IF EndsWithNumber(it[2].v) THEN <<Flag(r, it, "Contains numbers")>> ELSE <<>>)

\* The guard of lines 14-16.
HasOfficialsDict(r) == r.success /\ Truthy(r.officials) /\ IsDict(r.officials)

RECURSIVE FlagsOfItems(_, _, _)
FlagsOfItems(r, items, i) ==
    IF i > Len(items) THEN <<>>
    ELSE FlagsOf(r, items[i]) \o FlagsOfItems(r, items, i + 1)

NamesOfItems(items) == [i \in 1..Len(items) |-> items[i][2].v]

\* The loop of lines 13-50: all_officials and suspicious_names.
RECURSIVE CollectLoop(_, _)
CollectLoop(rs, i) ==
    IF i > Len(rs) THEN [names |-> <<>>, flags |-> <<>>]
    ELSE LET rest == CollectLoop(rs, i + 1) IN
         IF HasOfficialsDict(rs[i])
         THEN LET items == NamedItems(rs[i].officials) IN
              [names |-> NamesOfItems(items) \o rest.names,
               flags |-> FlagsOfItems(rs[i], items, 1) \o rest.flags]
         ELSE rest

\* Counter.update for one key: elements are stored as first encountered.
CounterAdd(c, k) ==
    IF \E i \in 1..Len(c) : c[i][1] = k
    THEN [i \in 1..Len(c) |-> IF c[i][1] = k THEN <<k, c[i][2] + 1>> ELSE c[i]]
    ELSE Append(c, <<k, 1>>)

\* Counter(iterable)
RECURSIVE Counter(_)
Counter(xs) == IF xs = <<>> THEN <<>> ELSE CounterAdd(Counter(SubSeq(xs, 1, Len(xs) - 1)), xs[Len(xs)])

\* A sort step that is not stable: x goes in front of the elements of equal count.
InsertBeforeTies(sorted, x) ==
    LET before == SelectSeq(sorted, LAMBDA y : y[2] > x[2])
        after == SelectSeq(sorted, LAMBDA y : y[2] <= x[2])
    IN before \o <<x>> \o after

\* One step of the stable descending sort: x goes behind every element whose
\* count is not smaller.
InsertByCount(sorted, x) ==
    LET before == SelectSeq(sorted, LAMBDA y : y[2] >= x[2])
        after == SelectSeq(sorted, LAMBDA y : y[2] < x[2])
    IN before \o <<x>> \o after

RECURSIVE SortByCount(_)
SortByCount(c) ==
    IF c = <<>> THEN <<>> ELSE InsertByCount(SortByCount(SubSeq(c, 1, Len(c) - 1)), c[Len(c)])

\* Counter.most_common(n): sorted(items, key=count, reverse=True)[:n]
MostCommon(c, n) ==
    LET s == SortByCount(c) IN SubSeq(s, 1, IF Len(s) < n THEN Len(s) ELSE n)

\* [name for name in all_officials if len(name.split()) == 1]
SingleNames(names) == SelectSeq(names, LAMBDA nm : Len(StrSplit(nm)) = 1)

----------------------------------------------------------------------------
(* deep_check_officials.py                                                  *)

schools_to_check ==
    <<"rolltide.com", "floridagators.com", "georgiadogs.com",
      "texaslonghorns.com", "ohiostatebuckeyes.com">>

\* Index of the first successful record of a domain, 0 when there is none
\* (the inner for ... break of lines 15-22).
FirstSuccessful(rs, school) ==
    LET hits == {i \in 1..Len(rs) : rs[i].domain = school /\ rs[i].success}
    IN IF hits = {} THEN 0 ELSE CHOOSE i \in hits : \A j \in hits : i <= j

\* result['gameInfo']['opponent'] at line 17: a missing key is a KeyError,
\* None or a list cannot be subscripted with a string.
OpponentSubscriptErr(r) ==
    CASE r.gameInfo.t = "absent" -> "KeyError"
      [] r.gameInfo.t = "obj" -> IF HasKey(r.gameInfo, "opponent") THEN "none" ELSE "KeyError"
      [] OTHER -> "TypeError"

\* officials.items() at line 19 on result.get('officials', {}).
ItemsErr(off) == IF IsDict(off) THEN "none" ELSE "AttributeError"

OfficialLines(items) == [i \in 1..Len(items) |-> <<"official", items[i][1], items[i][2].v>>]

\* Lines 14-22 from the k-th school on: the lines printed, until an exception.
RECURSIVE KnownSchoolsLoop(_, _, _)
KnownSchoolsLoop(rs, k, out) ==
    IF k > Len(schools_to_check) THEN [out |-> out, err |-> "none"]
    ELSE LET i == FirstSuccessful(rs, schools_to_check[k]) IN
         IF i = 0 THEN KnownSchoolsLoop(rs, k + 1, out)
         ELSE IF OpponentSubscriptErr(rs[i]) # "none"
              THEN [out |-> out, err |-> OpponentSubscriptErr(rs[i])]
         ELSE LET head == Append(out, <<"school", rs[i].domain,
                                         Lookup(rs[i].gameInfo, "opponent")>>)
                  off == FieldGet(rs[i].officials, EmptyDict)
              IN IF ItemsErr(off) # "none"
                 THEN [out |-> head, err |-> ItemsErr(off)]
                 ELSE KnownSchoolsLoop(rs, k + 1, head \o OfficialLines(NamedItems(off)))

\* f"{position}:{name}"
Token(it) == it[1] \o ":" \o it[2].v

\* set(officials_list) of lines 35-40.
TokenSet(off) ==
    LET items == NamedItems(off) IN {Token(items[i]) : i \in 1..Len(items)}

\* d[k] = v on a dict kept in insertion order.
DictSet(d, k, v) ==
    IF \E i \in 1..Len(d) : d[i][1] = k
    THEN [i \in 1..Len(d) |-> IF d[i][1] = k THEN <<k, v>> ELSE d[i]]
    ELSE Append(d, <<k, v>>)

\* The loop of lines 30-40.
RECURSIVE OfficialsBySchool(_, _, _)
OfficialsBySchool(rs, i, d) ==
    IF i > Len(rs) THEN d
    ELSE IF HasOfficialsDict(rs[i]) /\ NamedItems(rs[i].officials) # <<>>
         THEN OfficialsBySchool(rs, i + 1, DictSet(d, rs[i].domain, TokenSet(rs[i].officials)))
         ELSE OfficialsBySchool(rs, i + 1, d)

\* The inner loop of lines 46-50 for one i.
RECURSIVE CrewsFrom(_, _, _)
CrewsFrom(d, i, j) ==
    IF j > Len(d) THEN <<>>
    ELSE (IF d[i][2] = d[j][2] THEN << <<d[i][1], d[j][1]>> >> ELSE <<>>)
         \o CrewsFrom(d, i, j + 1)

\* The double loop with the inner range starting at 0 instead of i + 1.
RECURSIVE IdenticalCrewsAllPairs(_, _)
IdenticalCrewsAllPairs(d, i) ==
    IF i > Len(d) THEN <<>> ELSE CrewsFrom(d, i, 1) \o IdenticalCrewsAllPairs(d, i + 1)

\* The double loop of lines 43-50.
RECURSIVE IdenticalCrews(_, _)
IdenticalCrews(d, i) ==
    IF i > Len(d) THEN <<>> ELSE CrewsFrom(d, i, i + 1) \o IdenticalCrews(d, i + 1)

\* The guard of lines 68, 84 and 99 with the success test left out.
HasOfficialsAnyRecord(r) == Truthy(r.officials)

\* The guard of lines 68, 84 and 99: no isinstance test before .items().
HasOfficials(r) == r.success /\ Truthy(r.officials)

\* Lines 74-78 for one name.
IsGeneric(name) ==
    /\ IsSimpleTwoWord(name)
    /\ Len(name) < 12
    /\ StrCountSpaces(name) = 1
    /\ LET parts == StrSplit(name) IN Len(parts[1]) < 5 /\ Len(parts[2]) < 6

\* A loop of the shape "for result ...: if success and officials: for position,
\* name in officials.items(): if name: ..." (lines 67-71, 83-87, 98-101): the
\* (domain, position, name) triples visited, until .items() raises.
RECURSIVE VisitLoop(_, _, _)
VisitLoop(rs, i, acc) ==
    IF i > Len(rs) THEN [list |-> acc, err |-> "none"]
    ELSE IF ~HasOfficials(rs[i]) THEN VisitLoop(rs, i + 1, acc)
    ELSE IF ItemsErr(rs[i].officials) # "none"
         THEN [list |-> acc, err |-> ItemsErr(rs[i].officials)]
    ELSE LET items == NamedItems(rs[i].officials) IN
         VisitLoop(rs, i + 1,
                   acc \o [k \in 1..Len(items) |-> <<rs[i].domain, items[k][1], items[k][2].v>>])

\* generic_patterns of lines 73-78 over the visited triples.
GenericPatterns(triples) ==
    LET hits == SelectSeq(triples, LAMBDA t : IsGeneric(t[3]))
    IN [k \in 1..Len(hits) |-> <<hits[k][1], hits[k][2], hits[k][3], "Very short simple name">>]

\* position_counts of lines 82-87, in most_common() order (line 89).
PositionCounts(triples) ==
    LET c == Counter([k \in 1..Len(triples) |-> triples[k][2]])
    IN MostCommon(c, Len(c))

suspicious_keywords == <<"test", "example", "sample", "demo", "placeholder", "temp", "dummy">>

\* Lines 102-105 with a break after the first keyword found.
KeywordHitsOnce(t) ==
    IF \E k \in 1..Len(suspicious_keywords) : StrContains(StrLower(t[3]), suspicious_keywords[k])
    THEN <<t>> ELSE <<>>

\* Lines 102-105 for one triple: one append per keyword found in the name.
KeywordHits(t) ==
    LET low == StrLower(t[3])
        ks == SelectSeq(suspicious_keywords, LAMBDA kw : StrContains(low, kw))
    IN [k \in 1..Len(ks) |-> t]

RECURSIVE FoundSuspicious(_, _)
FoundSuspicious(triples, i) ==
    IF i > Len(triples) THEN <<>>
    ELSE KeywordHits(triples[i]) \o FoundSuspicious(triples, i + 1)

----------------------------------------------------------------------------
(* verify_matching_games.py                                                 *)

\* gameInfo.get at line 10 on a truthy gameInfo: a list has no .get.
SchoolGamesRaises(r) == r.success /\ Truthy(r.gameInfo) /\ ~IsDict(r.gameInfo)

\* The loop of lines 8-10.
RECURSIVE SchoolGames(_, _, _)
SchoolGames(rs, i, d) ==
    IF i > Len(rs) THEN [dict |-> d, err |-> "none"]
    ELSE IF SchoolGamesRaises(rs[i]) THEN [dict |-> d, err |-> "AttributeError"]
    ELSE IF rs[i].success /\ Truthy(rs[i].gameInfo)
         THEN SchoolGames(rs, i + 1,
                  DictSet(d, rs[i].domain, DictGet(rs[i].gameInfo, "opponent", Str("Unknown"))))
         ELSE SchoolGames(rs, i + 1, d)

pairs_to_check ==
    << <<"rolltide.com", "ulmwarhawks.com">>,
       <<"floridagators.com", "gousfbulls.com">>,
       <<"lsusports.net", "latechsports.com">>,
       <<"mutigers.com", "kuathletics.com">>,
       <<"hawkeyesports.com", "cyclones.com">>,
       <<"uhcougars.com", "riceowls.com">>,
       <<"navysports.com", "uabsports.com">>,
       <<"troytrojans.com", "clemsontigers.com">> >>

\* The if/elif chain of lines 40-55, one entry per branch: the substrings
\* looked for in opp2 and those looked for in opp1.
each_other_branches ==
    << [in2 |-> {"Alabama"}, in1 |-> {"ULM"}],
       [in2 |-> {"Florida"}, in1 |-> {"South Florida", "USF"}],
       [in2 |-> {"LSU"}, in1 |-> {"Louisiana Tech", "LA Tech"}],
       [in2 |-> {"Missouri"}, in1 |-> {"Kansas"}],
       [in2 |-> {"Iowa"}, in1 |-> {"Iowa State"}],
       [in2 |-> {"Houston"}, in1 |-> {"Rice"}],
       [in2 |-> {"Navy"}, in1 |-> {"UAB"}],
       [in2 |-> {"Clemson"}, in1 |-> {"Troy"}] >>

\* school_games.get(school, 'Not found')
ShownOpponent(d, school) ==
    IF \E i \in 1..Len(d) : d[i][1] = school
    THEN d[CHOOSE i \in 1..Len(d) : d[i][1] = school][2]
    ELSE Str("Not found")

\* One branch condition of the chain on two strings.
BranchHolds(b, opp1, opp2) ==
    \/ \E x \in b.in2 : StrContains(opp2, x)
    \/ \E x \in b.in1 : StrContains(opp1, x)

\* The chain of lines 40-55: the confirmation is printed when some branch
\* holds, whichever pair is being shown.
PlayingEachOther(opp1, opp2) ==
    \E k \in 1..Len(each_other_branches) : BranchHolds(each_other_branches[k], opp1, opp2)

\* "x in opp" on None is a TypeError.  Line 40 tests opp2 first and opp1 only
\* when 'Alabama' is not in opp2; later branches see two strings.
ChainRaises(opp1, opp2) ==
    \/ opp2.t # "str"
    \/ ~StrContains(opp2.v, "Alabama") /\ opp1.t # "str"

\* The loop of lines 27-55 from the k-th pair on.
RECURSIVE PairsLoop(_, _, _)
PairsLoop(d, k, out) ==
    IF k > Len(pairs_to_check) THEN [out |-> out, err |-> "none"]
    ELSE LET opp1 == ShownOpponent(d, pairs_to_check[k][1])
             opp2 == ShownOpponent(d, pairs_to_check[k][2])
             shown == [school1 |-> pairs_to_check[k][1], school2 |-> pairs_to_check[k][2],
                       opp1 |-> opp1, opp2 |-> opp2]
         IN IF ChainRaises(opp1, opp2)
            THEN [out |-> Append(out, [shown |-> shown, each_other |-> FALSE]),
                  err |-> "TypeError"]
            ELSE PairsLoop(d, k + 1,
                     Append(out, [shown |-> shown,
                                  each_other |-> IF opp1.t = "str"
                                                 THEN PlayingEachOther(opp1.v, opp2.v)
                                                 ELSE TRUE]))

major_schools ==
    <<"georgiadogs.com", "ohiostatebuckeyes.com", "clemsontigers.com", "texaslonghorns.com">>

\* any(officials.values())
AnyValue(off) == \E i \in 1..Len(off.items) : Truthy(off.items[i][2])

\* Lines 70-73: the referee and umpire lines printed for one officials dict.
SampleLines(off) ==
    (IF Truthy(DictGet(off, "referee", Null))
     THEN << <<"Referee", DictGet(off, "referee", Null).v>> >> ELSE <<>>)
    \o (IF Truthy(DictGet(off, "umpire", Null))
        THEN << <<"Umpire", DictGet(off, "umpire", Null).v>> >> ELSE <<>>)

\* The loop of lines 63-74 from the k-th school on.
RECURSIVE MajorLoop(_, _, _)
MajorLoop(rs, k, out) ==
    IF k > Len(major_schools) THEN [out |-> out, err |-> "none"]
    ELSE LET i == FirstSuccessful(rs, major_schools[k]) IN
         IF i = 0 THEN MajorLoop(rs, k + 1, out)
         ELSE LET off == FieldGet(rs[i].officials, EmptyDict) IN
              IF ~Truthy(off) THEN MajorLoop(rs, k + 1, out)
              ELSE IF ~IsDict(off) THEN [out |-> out, err |-> "AttributeError"]
              ELSE IF AnyValue(off)
                   THEN MajorLoop(rs, k + 1,
                            Append(out, [school |-> rs[i].domain, lines |-> SampleLines(off)]))
                   ELSE MajorLoop(rs, k + 1, out)

----------------------------------------------------------------------------
(* The datasets a run may load.  Each script is given records that vary the *)
(* fields it reads.                                                         *)

Item(k, name) == <<k, Str(name)>>

crew_a == Obj(<<Item("referee", "Jane Roe"), Item("umpire", "Jim Poe")>>)
crew_a_reordered == Obj(<<Item("umpire", "Jim Poe"), Item("referee", "Jane Roe")>>)
crew_b == Obj(<<Item("referee", "Jim Poe"), Item("umpire", "Jane Roe")>>)
all_null == Obj(<< <<"referee", Null>>, <<"umpire", Null>> >>)
blank_name == Obj(<<Item("referee", "")>>)
partial_crew == Obj(<< <<"referee", Null>>, Item("umpire", "Jane Roe")>>)
suspect_crew ==
    Obj(<<Item("referee", "John Doe"), Item("umpire", "Smith Smith"),
          Item("linesman", "7 7"), Item("line judge", "JANE SMITH")>>)
numbered_crew ==
    Obj(<<Item("referee", "Referee2"), Item("umpire", "Ref 1\n"), Item("back judge", "Al Bo")>>)
keyword_crew ==
    Obj(<<Item("referee", "Test Dummy"), Item("umpire", "TEMP"), Item("linesman", "Sam Pell")>>)
big_crew_a ==
    Obj(<<Item("referee", "Ann Ash"), Item("umpire", "Bob Bay"), Item("linesman", "Cal Cox"),
          Item("line judge", "Dee Day"), Item("back judge", "Eli Eck"),
          Item("field judge", "Eli Eck")>>)
big_crew_b ==
    Obj(<<Item("referee", "Fay Fox"), Item("umpire", "Gus Gil"), Item("linesman", "Hal Ham"),
          Item("line judge", "Ida Ice"), Item("back judge", "Jon Jay"),
          Item("field judge", "Kim Kay")>>)
not_a_dict == List(<<Str("Jane Roe")>>)

Versus(opp) == Obj(<< <<"opponent", opp>> >>)
no_opponent == Obj(<< <<"date", Str("2025-09-06")>> >>)

AnalyzePool ==
    {GameResult("a.com", TRUE, Absent, Absent, off) :
        off \in {Absent, Null, not_a_dict, EmptyDict, all_null, blank_name, partial_crew}}
    \cup {GameResult("b.com", TRUE, sg[1], sg[2], all_null) :
            sg \in {<<Str("Alpha"), Versus(Str("ULM"))>>, <<Null, Null>>}}
    \cup {GameResult("c.com", FALSE, Absent, Absent, all_null)}

CheckPool ==
    {GameResult("a.com", TRUE, Absent, Absent, off) :
        off \in {Null, not_a_dict, all_null, blank_name, suspect_crew, numbered_crew,
                 big_crew_a, big_crew_b}}
    \cup {GameResult("b.com", TRUE, Absent, Absent, partial_crew),
          GameResult("a.com", FALSE, Absent, Absent, suspect_crew)}

DeepPool ==
    {GameResult("rolltide.com", TRUE, Absent, gi, crew_a) : gi \in {Versus(Str("ULM")), Absent}}
    \cup {GameResult("rolltide.com", TRUE, Absent, Versus(Str("ULM")), Null)}
    \cup {GameResult("ulmwarhawks.com", TRUE, Absent, Absent, off) :
            off \in {crew_a_reordered, crew_b, keyword_crew}}
    \cup {GameResult("gousfbulls.com", TRUE, Absent, Absent, off) :
            off \in {crew_a, not_a_dict, all_null}}
    \cup {GameResult("gousfbulls.com", FALSE, Absent, Absent, crew_a),
          GameResult("ulmwarhawks.com", FALSE, Absent, Absent, keyword_crew)}

VerifyPool ==
    {GameResult("rolltide.com", TRUE, Absent, gi, Absent) :
        gi \in {Versus(Str("ULM")), Absent, Null, no_opponent, not_a_dict}}
    \cup {GameResult("ulmwarhawks.com", TRUE, Absent, gi, Absent) :
            gi \in {Versus(Str("Alabama")), Versus(Null)}}
    \cup {GameResult("floridagators.com", TRUE, Absent, gi, Absent) :
            gi \in {Versus(Str("ULM")), Versus(Str("South Florida"))}}
    \cup {GameResult("clemsontigers.com", TRUE, Absent, Versus(Str("Troy")), off) :
            off \in {crew_a, not_a_dict}}
    \cup {GameResult("rolltide.com", FALSE, Absent, Versus(Str("ULM")), Absent)}

Scripts == {"analyze", "check", "deep", "verify"}

Pool(s) ==
    CASE s = "analyze" -> AnalyzePool
      [] s = "check" -> CheckPool
      [] s = "deep" -> DeepPool
      [] s = "verify" -> VerifyPool

\* The results lists of at most MaxRecords records.
Datasets(pool) == UNION {[1..n -> pool] : n \in 0..MaxRecords}

----------------------------------------------------------------------------
(* The run.                                                                 *)

\* json.load has returned; every result list of the scripts is still empty.
Init ==
    /\ script \in Scripts
    /\ data \in Datasets(Pool(script))
    /\ pc = "start"
    /\ err = "none"
    /\ no_officials = <<>>
    /\ all_officials = <<>>
    /\ suspicious_names = <<>>
    /\ name_counts = <<>>
    /\ top_names = <<>>
    /\ single_names = <<>>
    /\ printed_schools = <<>>
    /\ officials_by_school = <<>>
    /\ identical_crews = <<>>
    /\ all_names = <<>>
    /\ generic_patterns = <<>>
    /\ position_counts = <<>>
    /\ found_suspicious = <<>>
    /\ school_games = <<>>
    /\ pair_report = <<>>
    /\ major_report = <<>>

AnalyzeVars == <<no_officials>>
CheckVars == <<all_officials, suspicious_names, name_counts, top_names, single_names>>
DeepVars == <<printed_schools, officials_by_school, identical_crews, all_names,
              generic_patterns, position_counts, found_suspicious>>
VerifyVars == <<school_games, pair_report, major_report>>

\* Where the run stands after a section: at the next one, or still at the
\* section whose exception ended it.
After(e, next) == IF e = "none" THEN next ELSE pc

\* analyze_officials.py, lines 7-27.
FindNoOfficials ==
    /\ script = "analyze" /\ pc = "start" /\ err = "none"
    /\ LET res == NoOfficialsLoop(data, 1, <<>>) IN
        /\ no_officials' = res.list
        /\ err' = res.err
        /\ pc' = After(res.err, "done")
    /\ UNCHANGED <<script, data, CheckVars, DeepVars, VerifyVars>>

\* check_officials.py, lines 9-50.
CollectOfficials ==
    /\ script = "check" /\ pc = "start" /\ err = "none"
    /\ LET res == CollectLoop(data, 1) IN
        /\ all_officials' = res.names
        /\ suspicious_names' = res.flags
    /\ pc' = "count"
    /\ UNCHANGED <<script, data, err, name_counts, top_names, single_names,
                   AnalyzeVars, DeepVars, VerifyVars>>

\* check_officials.py, lines 53-64.
CountNames ==
    /\ script = "check" /\ pc = "count" /\ err = "none"
    /\ name_counts' = Counter(all_officials)
    /\ top_names' = MostCommon(Counter(all_officials), TopN)
    /\ pc' = "single"
    /\ UNCHANGED <<script, data, err, all_officials, suspicious_names, single_names,
                   AnalyzeVars, DeepVars, VerifyVars>>

\* check_officials.py, lines 86-91.
FindSingleNames ==
    /\ script = "check" /\ pc = "single" /\ err = "none"
    /\ single_names' = SingleNames(all_officials)
    /\ pc' = "done"
    /\ UNCHANGED <<script, data, err, all_officials, suspicious_names, name_counts,
                   top_names, AnalyzeVars, DeepVars, VerifyVars>>

\* deep_check_officials.py, lines 12-22.
CheckKnownSchools ==
    /\ script = "deep" /\ pc = "start" /\ err = "none"
    /\ LET res == KnownSchoolsLoop(data, 1, <<>>) IN
        /\ printed_schools' = res.out
        /\ err' = res.err
        /\ pc' = After(res.err, "crews")
    /\ UNCHANGED <<script, data, officials_by_school, identical_crews, all_names,
                   generic_patterns, position_counts, found_suspicious,
                   AnalyzeVars, CheckVars, VerifyVars>>

\* deep_check_officials.py, lines 29-40.
BuildOfficialsBySchool ==
    /\ script = "deep" /\ pc = "crews" /\ err = "none"
    /\ officials_by_school' = OfficialsBySchool(data, 1, <<>>)
    /\ pc' = "identical"
    /\ UNCHANGED <<script, data, err, printed_schools, identical_crews, all_names,
                   generic_patterns, position_counts, found_suspicious,
                   AnalyzeVars, CheckVars, VerifyVars>>

\* deep_check_officials.py, lines 43-57.
FindIdenticalCrews ==
    /\ script = "deep" /\ pc = "identical" /\ err = "none"
    /\ identical_crews' = IdenticalCrews(officials_by_school, 1)
    /\ pc' = "generic"
    /\ UNCHANGED <<script, data, err, printed_schools, officials_by_school, all_names,
                   generic_patterns, position_counts, found_suspicious,
                   AnalyzeVars, CheckVars, VerifyVars>>

\* deep_check_officials.py, lines 64-78.
CheckGenericPatterns ==
    /\ script = "deep" /\ pc = "generic" /\ err = "none"
    /\ LET res == VisitLoop(data, 1, <<>>) IN
        /\ all_names' = res.list
        /\ generic_patterns' = GenericPatterns(res.list)
        /\ err' = res.err
        /\ pc' = After(res.err, "positions")
    /\ UNCHANGED <<script, data, printed_schools, officials_by_school, identical_crews,
                   position_counts, found_suspicious, AnalyzeVars, CheckVars, VerifyVars>>

\* deep_check_officials.py, lines 82-90.
CountPositions ==
    /\ script = "deep" /\ pc = "positions" /\ err = "none"
    /\ LET res == VisitLoop(data, 1, <<>>) IN
        /\ position_counts' = PositionCounts(res.list)
        /\ err' = res.err
        /\ pc' = After(res.err, "keywords")
    /\ UNCHANGED <<script, data, printed_schools, officials_by_school, identical_crews,
                   all_names, generic_patterns, found_suspicious,
                   AnalyzeVars, CheckVars, VerifyVars>>

\* deep_check_officials.py, lines 95-112.
ScanKeywords ==
    /\ script = "deep" /\ pc = "keywords" /\ err = "none"
    /\ LET res == VisitLoop(data, 1, <<>>) IN
        /\ found_suspicious' = FoundSuspicious(res.list, 1)
        /\ err' = res.err
        /\ pc' = After(res.err, "done")
    /\ UNCHANGED <<script, data, printed_schools, officials_by_school, identical_crews,
                   all_names, generic_patterns, position_counts,
                   AnalyzeVars, CheckVars, VerifyVars>>

\* verify_matching_games.py, lines 7-10.
BuildSchoolGames ==
    /\ script = "verify" /\ pc = "start" /\ err = "none"
    /\ LET res == SchoolGames(data, 1, <<>>) IN
        /\ school_games' = res.dict
        /\ err' = res.err
        /\ pc' = After(res.err, "pairs")
    /\ UNCHANGED <<script, data, pair_report, major_report,
                   AnalyzeVars, CheckVars, DeepVars>>

\* verify_matching_games.py, lines 16-55.
VerifyPairs ==
    /\ script = "verify" /\ pc = "pairs" /\ err = "none"
    /\ LET res == PairsLoop(school_games, 1, <<>>) IN
        /\ pair_report' = res.out
        /\ err' = res.err
        /\ pc' = After(res.err, "major")
    /\ UNCHANGED <<script, data, school_games, major_report,
                   AnalyzeVars, CheckVars, DeepVars>>

\* verify_matching_games.py, lines 62-74.
ShowMajorSchools ==
    /\ script = "verify" /\ pc = "major" /\ err = "none"
    /\ LET res == MajorLoop(data, 1, <<>>) IN
        /\ major_report' = res.out
        /\ err' = res.err
        /\ pc' = After(res.err, "done")
    /\ UNCHANGED <<script, data, school_games, pair_report,
                   AnalyzeVars, CheckVars, DeepVars>>

Next ==
    \/ FindNoOfficials
    \/ CollectOfficials
    \/ CountNames
    \/ FindSingleNames
    \/ CheckKnownSchools
    \/ BuildOfficialsBySchool
    \/ FindIdenticalCrews
    \/ CheckGenericPatterns
    \/ CountPositions
    \/ ScanKeywords
    \/ BuildSchoolGames
    \/ VerifyPairs
    \/ ShowMajorSchools

Spec == Init /\ [][Next]_vars

\* One script at a time.
InitAnalyze == Init /\ script = "analyze"
NextAnalyze == FindNoOfficials
SpecAnalyze == InitAnalyze /\ [][NextAnalyze]_vars

InitCheck == Init /\ script = "check"
NextCheck == CollectOfficials \/ CountNames \/ FindSingleNames
SpecCheck == InitCheck /\ [][NextCheck]_vars

InitDeep == Init /\ script = "deep"
NextDeep ==
    \/ CheckKnownSchools
    \/ BuildOfficialsBySchool
    \/ FindIdenticalCrews
    \/ CheckGenericPatterns
    \/ CountPositions
    \/ ScanKeywords
SpecDeep == InitDeep /\ [][NextDeep]_vars

InitVerify == Init /\ script = "verify"
NextVerify == BuildSchoolGames \/ VerifyPairs \/ ShowMajorSchools
SpecVerify == InitVerify /\ [][NextVerify]_vars

----------------------------------------------------------------------------
(* Which sections of the running script have completed.                     *)

AnalyzeDone == script = "analyze" /\ pc = "done"
Collected == script = "check" /\ pc \in {"count", "single", "done"}
Counted == script = "check" /\ pc \in {"single", "done"}
CrewsBuilt == script = "deep" /\ pc \in {"identical", "generic", "positions", "keywords", "done"}
CrewsCompared == script = "deep" /\ pc \in {"generic", "positions", "keywords", "done"}
PositionsCounted == script = "deep" /\ pc \in {"keywords", "done"}
KeywordsScanned == script = "deep" /\ pc = "done"
GamesBuilt == script = "verify" /\ pc \in {"pairs", "major", "done"}
PairsShown == script = "verify" /\ (pc \in {"major", "done"} \/ (pc = "pairs" /\ err # "none"))

\* The k-th smallest element of a set of indices.
NthOf(S, k) == CHOOSE i \in S : Cardinality({j \in S : j < i}) = k - 1

\* no_officials lists exactly the records of data at the indices S, in order.
ListsExactly(S) ==
    /\ Len(no_officials) = Cardinality(S)
    /\ \A k \in 1..Len(no_officials) :
        LET r == data[NthOf(S, k)] IN
        /\ no_officials[k].domain = r.domain
        /\ no_officials[k].officials_data = (IF r.officials = Absent THEN EmptyDict ELSE r.officials)

----------------------------------------------------------------------------
(* C1 *)

\* A successful record whose officials mapping is absent, empty or all null.
Qualifies(r) ==
    /\ r.success
    /\ \/ r.officials = Absent
       \/ /\ r.officials.t = "obj"
          /\ \A i \in 1..Len(r.officials.items) : r.officials.items[i][2] = Null

\* C1: once analyze_officials.py has run, no_officials is exactly the
\* input-order subsequence of the successful records whose officials mapping is
\* absent, empty or all null: no unsuccessful record is in it and no qualifying
\* record is missing.
C1_NoOfficialsExact ==
    AnalyzeDone => ListsExactly({i \in 1..Len(data) : Qualifies(data[i])})

\* A run over three records of which one is unsuccessful, one qualifies and one
\* has a named official.
C1_Witness ==
    /\ AnalyzeDone
    /\ Len(data) = 3
    /\ Len(no_officials) = 1
    /\ \E i \in 1..3 : ~data[i].success
    /\ \E i \in 1..3 : data[i].success /\ data[i].officials = partial_crew

----------------------------------------------------------------------------
(* C2 *)

\* school, gameInfo and officials are each absent, null or well formed.
MissingOrWellFormed(r) ==
    /\ r.school.t \in {"absent", "null", "str"}
    /\ \/ r.gameInfo.t \in {"absent", "null"}
       \/ /\ r.gameInfo.t = "obj"
          /\ HasKey(r.gameInfo, "opponent")
          /\ Lookup(r.gameInfo, "opponent").t = "str"
    /\ r.officials.t \in {"absent", "null", "obj"}

\* C2: on records whose school, gameInfo and officials are absent or null (or
\* well formed), no script raises, and the no-officials entries carry the
\* defaults: the domain for a missing school, "Unknown" for a missing opponent.
C2_NeverRaises ==
    (\A i \in 1..Len(data) : MissingOrWellFormed(data[i])) =>
        /\ err = "none"
        /\ AnalyzeDone =>
            \A k \in 1..Len(no_officials) :
                no_officials[k].school.t = "str" /\ no_officials[k].opponent.t = "str"

----------------------------------------------------------------------------
(* C10 *)

\* The record adds no name to all_officials of check_officials.py.
ContributesNothing(r) == CollectLoop(<<r>>, 1).names = <<>>

\* C10: a successful record is in the no-officials output exactly when it
\* contributes no entry to the flattened name list.
C10_ChecksAgree ==
    AnalyzeDone =>
        ListsExactly({i \in 1..Len(data) : data[i].success /\ ContributesNothing(data[i])})

----------------------------------------------------------------------------
(* Vocabulary shared by the claims about official entries.                  *)

\* The successful records that carry an officials mapping.
HasMapping(r) == r.success /\ r.officials.t = "obj"

\* The entries of the dataset as index pairs: record i, item k, name not null.
EntryIndices ==
    UNION {{<<i, k>> : k \in {k \in 1..Len(data[i].officials.items) :
                                data[i].officials.items[k][2].t = "str"}} :
           i \in {i \in 1..Len(data) : HasMapping(data[i])}}

EntryDomain(ik) == data[ik[1]].domain
EntryPosition(ik) == data[ik[1]].officials.items[ik[2]][1]
EntryName(ik) == data[ik[1]].officials.items[ik[2]][2].v

\* Discovery order of <<entry, rule>> pairs: by record, then item, then rule.
Earlier(g, h) ==
    \/ g[1][1] < h[1][1]
    \/ g[1][1] = h[1][1] /\ g[1][2] < h[1][2]
    \/ g[1] = h[1] /\ g[2] < h[2]

RankIn(H, h) == 1 + Cardinality({g \in H : Earlier(g, h)})

----------------------------------------------------------------------------
(* C4 *)

Reasons == <<"Common placeholder name", "Repetitive pattern", "Contains numbers">>

\* The name ends with one or more decimal digits.
EndsInDigit(name) == Len(name) >= 1 /\ CharAt(name, Len(name)) \in Digits

\* ... or with digits followed by one final newline.
EndsInDigitOrDigitNewline(name) ==
    \/ EndsInDigit(name)
    \/ /\ Len(name) >= 2
       /\ CharAt(name, Len(name)) = "\n"
       /\ CharAt(name, Len(name) - 1) \in Digits

\* The three stated predicates; the third one is read with or without the
\* final newline.
Satisfies(p, name, newline_allowed) ==
    CASE p = 1 -> \E ph \in common_placeholder_names : StrLower(name) = ph
      [] p = 2 -> LET parts == StrSplit(name) IN Len(parts) = 2 /\ parts[1] = parts[2]
      [] p = 3 -> IF newline_allowed THEN EndsInDigitOrDigitNewline(name)
                  ELSE EndsInDigit(name)

FlagHits(newline_allowed) ==
    {h \in EntryIndices \X (1..3) : Satisfies(h[2], EntryName(h[1]), newline_allowed)}

\* One flag per (entry, predicate) that holds, in discovery order.
FlagsAreExactly(H) ==
    /\ Len(suspicious_names) = Cardinality(H)
    /\ \A h \in H :
        suspicious_names[RankIn(H, h)] =
            [school |-> EntryDomain(h[1]), position |-> EntryPosition(h[1]),
             name |-> EntryName(h[1]), reason |-> Reasons[h[2]]]

\* C4 as stated: suspicious_names holds exactly one flag per (entry, predicate)
\* that holds, in discovery order, the predicates being placeholder match,
\* repetitive pattern and "ends with one or more decimal digits".
C4_FlagsAsStated == Collected => FlagsAreExactly(FlagHits(FALSE))

\* C4 amended: the same, the third predicate being "ends with one or more
\* decimal digits, optionally followed by one final newline".
C4_FlagsAmended == Collected => FlagsAreExactly(FlagHits(TRUE))

\* A run in which one entry earns two flags, one earns none and one is flagged
\* for digits before a final newline.
C4_Witness ==
    /\ Collected
    /\ Cardinality({k \in 1..Len(suspicious_names) : suspicious_names[k].name = "7 7"}) = 2
    /\ \E i \in 1..Len(all_officials) : all_officials[i] = "Ann Ash"
    /\ \A k \in 1..Len(suspicious_names) : suspicious_names[k].name # "Ann Ash"
    /\ \E k \in 1..Len(suspicious_names) :
        suspicious_names[k].name = "Ref 1\n" /\ suspicious_names[k].reason = "Contains numbers"

----------------------------------------------------------------------------
(* C8 *)

NameSet == {all_officials[i] : i \in 1..Len(all_officials)}
Occurrences(nm) == Cardinality({i \in 1..Len(all_officials) : all_officials[i] = nm})
FirstSeen(nm) ==
    CHOOSE i \in 1..Len(all_officials) :
        all_officials[i] = nm /\ \A j \in 1..(i - 1) : all_officials[j] # nm

\* C8: the most-frequent-names report lists min(10, distinct names) names with
\* their exact counts, by descending count, equal counts in first-seen order,
\* and no unlisted name has a higher count than a listed one.
C8_TopNames ==
    Counted =>
        /\ Len(top_names) = (IF Cardinality(NameSet) < TopN THEN Cardinality(NameSet) ELSE TopN)
        /\ \A k \in 1..Len(top_names) :
            /\ top_names[k][1] \in NameSet
            /\ top_names[k][2] = Occurrences(top_names[k][1])
        /\ \A k, l \in 1..Len(top_names) :
            k < l =>
                /\ top_names[k][1] # top_names[l][1]
                /\ \/ top_names[k][2] > top_names[l][2]
                   \/ /\ top_names[k][2] = top_names[l][2]
                      /\ FirstSeen(top_names[k][1]) < FirstSeen(top_names[l][1])
        /\ \A nm \in NameSet :
            (\A k \in 1..Len(top_names) : top_names[k][1] # nm) =>
                \A k \in 1..Len(top_names) : Occurrences(nm) <= top_names[k][2]

\* More than ten distinct names, a repeated name that was not seen first, and
\* ties among the listed names.
C8_Witness ==
    /\ Counted
    /\ Cardinality(NameSet) > TopN
    /\ Len(top_names) = TopN
    /\ top_names[1][2] >= 2
    /\ FirstSeen(top_names[1][1]) > 1
    /\ top_names[TopN][2] = 1

----------------------------------------------------------------------------
(* C5 *)

\* The "position:name" tokens of a record's named officials.
CrewTokens(r) ==
    {r.officials.items[k][1] \o ":" \o r.officials.items[k][2].v :
        k \in {k \in 1..Len(r.officials.items) :
                 r.officials.items[k][2].t = "str" /\ r.officials.items[k][2].v # ""}}

\* The records that report a crew.
CrewRecords == {i \in 1..Len(data) : HasMapping(data[i]) /\ CrewTokens(data[i]) # {}}

TimesListed(a, b) ==
    Cardinality({k \in 1..Len(identical_crews) : identical_crews[k] = <<a, b>>})

\* C5 as stated: any two records of distinct domains with equal non-empty
\* token sets are reported exactly once, in one orientation only; no pair
\* (A,A) and no pair with differing token sets is reported.
C5_PairsAsStated ==
    CrewsCompared =>
        /\ \A i, j \in CrewRecords :
            (data[i].domain # data[j].domain /\ CrewTokens(data[i]) = CrewTokens(data[j])) =>
                TimesListed(data[i].domain, data[j].domain)
                    + TimesListed(data[j].domain, data[i].domain) = 1
        /\ \A k \in 1..Len(identical_crews) :
            /\ identical_crews[k][1] # identical_crews[k][2]
            /\ \E i, j \in CrewRecords :
                /\ data[i].domain = identical_crews[k][1]
                /\ data[j].domain = identical_crews[k][2]
                /\ CrewTokens(data[i]) = CrewTokens(data[j])

\* The crew a domain stands for: that of its last record reporting one.
CrewDomains == {data[i].domain : i \in CrewRecords}
LastCrew(d) ==
    CrewTokens(data[CHOOSE i \in CrewRecords :
                        data[i].domain = d /\ \A j \in CrewRecords : data[j].domain = d => j <= i])

UnorderedPairs(crews) == {{crews[k][1], crews[k][2]} : k \in 1..Len(crews)}

\* data with the records at i and i + 1 exchanged.
SwapAdjacent(rs, i) ==
    [k \in 1..Len(rs) |-> IF k = i THEN rs[i + 1] ELSE IF k = i + 1 THEN rs[i] ELSE rs[k]]

NoDomainRepeats == \A i, j \in CrewRecords : data[i].domain = data[j].domain => i = j

\* C5 amended: taking for each domain the crew of its last successful record
\* with a named official, two distinct domains are listed (once, in one
\* orientation) exactly when their crews are equal; no pair (A,A) is listed;
\* and when no domain reports a crew twice, exchanging two neighbouring records
\* (hence any reordering) leaves the set of reported pairs unchanged.
C5_PairsAmended ==
    CrewsCompared =>
        /\ \A a, b \in CrewDomains :
            a # b =>
                TimesListed(a, b) + TimesListed(b, a) = (IF LastCrew(a) = LastCrew(b) THEN 1 ELSE 0)
        /\ \A k \in 1..Len(identical_crews) :
            /\ identical_crews[k][1] # identical_crews[k][2]
            /\ identical_crews[k][1] \in CrewDomains
            /\ identical_crews[k][2] \in CrewDomains
        /\ NoDomainRepeats =>
            \A i \in 1..(Len(data) - 1) :
                UnorderedPairs(IdenticalCrews(OfficialsBySchool(SwapAdjacent(data, i), 1, <<>>), 1))
                    = UnorderedPairs(identical_crews)

\* Three domains with the same crew, given in different item orders: three
\* pairs are listed.
C5_Witness ==
    /\ CrewsCompared
    /\ Len(data) = 3
    /\ NoDomainRepeats
    /\ Len(identical_crews) = 3
    /\ \E i \in 1..3 : data[i].officials = crew_a_reordered

----------------------------------------------------------------------------
(* C9 *)

\* <<entry, keyword>> pairs where the keyword is a substring of the name,
\* letter case ignored.
KeywordMatches ==
    {h \in EntryIndices \X (1..Len(suspicious_keywords)) :
        \E a \in 1..(Len(EntryName(h[1])) - Len(suspicious_keywords[h[2]]) + 1) :
            StrLower(SubSeq(EntryName(h[1]), a, a + Len(suspicious_keywords[h[2]]) - 1))
                = suspicious_keywords[h[2]]}

\* C9: found_suspicious holds an entry once for each keyword of the fixed
\* set that is a case-insensitive substring of its name, in discovery order,
\* and nothing else.
C9_OncePerKeyword ==
    KeywordsScanned =>
        /\ Len(found_suspicious) = Cardinality(KeywordMatches)
        /\ \A h \in KeywordMatches :
            found_suspicious[RankIn(KeywordMatches, h)] =
                <<EntryDomain(h[1]), EntryPosition(h[1]), EntryName(h[1])>>

\* A name holding two keywords is listed twice, one holding one keyword in
\* capitals once, and one holding none is not listed.
C9_Witness ==
    /\ KeywordsScanned
    /\ Cardinality({k \in 1..Len(found_suspicious) : found_suspicious[k][3] = "Test Dummy"}) = 2
    /\ Cardinality({k \in 1..Len(found_suspicious) : found_suspicious[k][3] = "TEMP"}) = 1
    /\ \E i \in 1..Len(all_names) : all_names[i][3] = "Sam Pell"
    /\ \A k \in 1..Len(found_suspicious) : found_suspicious[k][3] # "Sam Pell"

----------------------------------------------------------------------------
(* C6 *)

\* The substrings the table gives for the k-th pair itself (the k-th branch
\* of the chain, as the comments of lines 17-24 pair them).
OwnSubstringFound(k, opp1, opp2) ==
    \/ opp2.t = "str" /\ \E x \in each_other_branches[k].in2 : StrContains(opp2.v, x)
    \/ opp1.t = "str" /\ \E x \in each_other_branches[k].in1 : StrContains(opp1.v, x)

\* C6: the "playing EACH OTHER" confirmation is printed for a pair only
\* when an opponent string contains a substring the table gives for that pair.
C6_OnlyOwnSubstrings ==
    PairsShown =>
        \A k \in 1..Len(pair_report) :
            pair_report[k].each_other =>
                OwnSubstringFound(k, pair_report[k].shown.opp1, pair_report[k].shown.opp2)

----------------------------------------------------------------------------
(* C7 *)

\* The opponent a record names, "Unknown" when it names none.
OpponentOrUnknown(r) ==
    IF r.gameInfo.t = "obj" /\ HasKey(r.gameInfo, "opponent")
          /\ Lookup(r.gameInfo, "opponent").t = "str"
    THEN Lookup(r.gameInfo, "opponent")
    ELSE Str("Unknown")

\* The successful records of a domain (unsuccessful ones take part in no check).
RecordsOf(d) == {i \in 1..Len(data) : data[i].domain = d /\ data[i].success}

ShownAsStated(d, shown) ==
    /\ shown = Str("Not found") <=> RecordsOf(d) = {}
    /\ RecordsOf(d) # {} => \E i \in RecordsOf(d) : shown = OpponentOrUnknown(data[i])

\* C7: the opponent shown for a domain is "Not found" exactly when the
\* dataset has no record of the domain; otherwise it is the opponent a record
\* of the domain names, or "Unknown" when the record names none.
C7_NotFoundIffAbsent ==
    PairsShown =>
        \A k \in 1..Len(pair_report) :
            /\ ShownAsStated(pair_report[k].shown.school1, pair_report[k].shown.opp1)
            /\ ShownAsStated(pair_report[k].shown.school2, pair_report[k].shown.opp2)

----------------------------------------------------------------------------
(* C3 *)

\* The dataset without its unsuccessful records.
SuccessfulOnly == SelectSeq(data, LAMBDA r : r.success)

\* C3: every derived result equals the one computed from the dataset with
\* the unsuccessful records removed.
C3_FailedRecordsIgnored ==
    /\ AnalyzeDone => no_officials = NoOfficialsLoop(SuccessfulOnly, 1, <<>>).list
    /\ Collected =>
        /\ all_officials = CollectLoop(SuccessfulOnly, 1).names
        /\ suspicious_names = CollectLoop(SuccessfulOnly, 1).flags
    /\ Counted =>
        /\ name_counts = Counter(CollectLoop(SuccessfulOnly, 1).names)
        /\ top_names = MostCommon(Counter(CollectLoop(SuccessfulOnly, 1).names), TopN)
    /\ CrewsBuilt => officials_by_school = OfficialsBySchool(SuccessfulOnly, 1, <<>>)
    /\ CrewsCompared =>
        identical_crews = IdenticalCrews(OfficialsBySchool(SuccessfulOnly, 1, <<>>), 1)
    /\ PositionsCounted =>
        position_counts = PositionCounts(VisitLoop(SuccessfulOnly, 1, <<>>).list)
    /\ KeywordsScanned =>
        found_suspicious = FoundSuspicious(VisitLoop(SuccessfulOnly, 1, <<>>).list, 1)
    /\ GamesBuilt => school_games = SchoolGames(SuccessfulOnly, 1, <<>>).dict

\* A keyword scan over a dataset whose unsuccessful record holds names that
\* would match, next to a successful record whose names do match.
C3_Witness ==
    /\ KeywordsScanned
    /\ \E i \in 1..Len(data) : ~data[i].success /\ data[i].officials = keyword_crew
    /\ \E i \in 1..Len(data) : data[i].success /\ data[i].officials = keyword_crew
    /\ Len(found_suspicious) = 3

====
